---- MODULE Spec2Model ----
(***************************************************************************)
(* A model of the minuteurs crate: the Deadline/Timeout interval           *)
(* (src/src/deadline.rs, duplicated in src/src/timeout.rs) and the         *)
(* Timer/Watcher tick telegraph built on it (src/src/timer.rs).            *)
(*                                                                         *)
(* Time is a discrete monotonic clock `now`.  An Instant is a number in    *)
(* 0..InstantMax, the clock's representable range; a Duration is a         *)
(* natural number.  Adding a Duration to an Instant beyond InstantMax is   *)
(* the overflow that Instant::checked_add reports as None and that the     *)
(* `+` and `+=` operators answer with a panic.                             *)
(***************************************************************************)
EXTENDS Integers, FiniteSets, Sequences, TLC

(* ------------------------------ bounds --------------------------------- *)

\* Last instant the clock reaches while an interval is used on its own.
MaxNow == 3

\* Last instant the clock reaches while a Timer runs.
MaxTimerNow == 2

\* Largest ordinary period handed to Timer::new.
MaxTimerDur == 1

\* Latest instant at which the interval or the Timer is constructed.
MaxStart == 1

\* Largest ordinary period/duration handed to a constructor.
MaxDur == 2

\* Number of calls made on one interval.
MaxCalls == 4

\* Number of calls made on the copy of an interval.
MaxCopyCalls == 2

\* Number of Timer::tick() calls the model lets the Timer thread start.
MaxTicks == 2

\* Number of watcher handles that can ever be created.
MaxWatchers == 2

(* ------------------------------ time ----------------------------------- *)

\* The decade of checked_delivery_time, scaled to the model's clock.
TEN_YEARS == 3

\* Largest Instant the clock type can represent.
InstantMax == MaxNow + TEN_YEARS

\* Duration::MAX: a duration no Instant can be advanced by.
DurationMAX == InstantMax + 1

\* The durations handed to Deadline::once / Deadline::repeat: the ordinary
\* ones, one that reaches the end of the clock's range from instant 0 and
\* overflows it from any later instant, and Duration::MAX.
Durations == (0 .. MaxDur) \cup {InstantMax, DurationMAX}

TimerDelays == (0 .. MaxTimerDur) \cup {DurationMAX}

\* Instant::checked_add(dur).is_none()
Overflows(instant, dur) == instant + dur > InstantMax

\* Instant - Instant as the distance between the two, whichever is later.
Instant_sub_abs(later, earlier) ==
    IF later >= earlier THEN later - earlier ELSE earlier - later

\* Instant - Instant: Instant::duration_since, which saturates at zero.
Instant_sub(later, earlier) == IF later >= earlier THEN later - earlier ELSE 0

\* checked_delivery_time, with the cap left out (the sum is used as it is).
checked_delivery_time_nocap(instant, dur) == instant + dur

\* checked_delivery_time, ignoring dur (the delivery time is the base).
checked_delivery_time_nodur(instant, dur) == instant

\* instant.checked_add(dur).unwrap_or(instant + TEN_YEARS)
checked_delivery_time(instant, dur) ==
    IF Overflows(instant, dur) THEN instant + TEN_YEARS ELSE instant + dur

(* ---------------------------- Deadline --------------------------------- *)

\* The outcome of a call on an interval: whether it panicked, what it
\* returned (a Duration; expired() compares it with Duration::ZERO) and the
\* interval as the call left it.
Outcome(p, r, s) == [panic |-> p, ret |-> r, self |-> s]

\* DeadlineOnce::new forgetting dur (the delivery time is the instant of
\* construction).
DeadlineOnce_new_now(t, dur) ==
    [kind |-> "Once", dur |-> dur, delivery_time |-> t]

\* DeadlineOnce::new
DeadlineOnce_new(t, dur) ==
    [kind |-> "Once", dur |-> dur, delivery_time |-> checked_delivery_time(t, dur)]

\* DeadlineRepeat::new
DeadlineRepeat_new(t, dur) ==
    [kind |-> "Repeat", dur |-> dur, delivery_time |-> checked_delivery_time(t, dur)]

\* DeadlineOnce::remaining_duration with the operands of the subtraction
\* swapped (Instant::now() - self.delivery_time).
DeadlineOnce_remaining_duration_swapped(self, t) ==
    Outcome(FALSE, Instant_sub(t, self.delivery_time), self)

\* DeadlineOnce::remaining_duration
DeadlineOnce_remaining_duration(self, t) ==
    Outcome(FALSE, Instant_sub(self.delivery_time, t), self)

\* self.delivery_time += self.dur
AddAssignDur(self) ==
    IF Overflows(self.delivery_time, self.dur)
    THEN Outcome(TRUE, 0, self)
    ELSE Outcome(FALSE, 0, [self EXCEPT !.delivery_time = @ + self.dur])

\* DeadlineRepeat::remaining_duration without its advance of delivery_time.
DeadlineRepeat_remaining_duration_pure(self, t) ==
    Outcome(FALSE, Instant_sub(self.delivery_time, t), self)

\* DeadlineRepeat::remaining_duration advancing delivery_time on every call.
DeadlineRepeat_remaining_duration_eager(self, t) ==
    LET adv == AddAssignDur(self)
    IN  Outcome(adv.panic, Instant_sub(self.delivery_time, t), adv.self)

\* DeadlineRepeat::remaining_duration restarting the period from the instant
\* of the call (delivery_time = now + dur) instead of adding to delivery_time.
DeadlineRepeat_remaining_duration_rearm(self, t) ==
    LET ret == Instant_sub(self.delivery_time, t)
    IN  IF ret = 0
        THEN Outcome(Overflows(t, self.dur), ret,
                     IF Overflows(t, self.dur) THEN self
                     ELSE [self EXCEPT !.delivery_time = t + self.dur])
        ELSE Outcome(FALSE, ret, self)

\* DeadlineRepeat::remaining_duration
DeadlineRepeat_remaining_duration(self, t) ==
    LET ret == Instant_sub(self.delivery_time, t)
        adv == AddAssignDur(self)
    IN  IF ret = 0
        THEN Outcome(adv.panic, ret, adv.self)
        ELSE Outcome(FALSE, ret, self)

\* Deadline::remaining_duration
Deadline_remaining_duration(self, t) ==
    IF self.kind = "Once"
    THEN DeadlineOnce_remaining_duration(self, t)
    ELSE DeadlineRepeat_remaining_duration(self, t)

\* Deadline::expired with the comparison inverted (!= Duration::ZERO).
Deadline_expired_inverted(self, t) ==
    LET o == Deadline_remaining_duration(self, t)
    IN  Outcome(o.panic, IF o.ret = 0 THEN 0 ELSE 1, o.self)

\* Deadline::expired: remaining_duration() == Duration::ZERO, ret 1 for true.
Deadline_expired(self, t) ==
    LET o == Deadline_remaining_duration(self, t)
    IN  Outcome(o.panic, IF o.ret = 0 THEN 1 ELSE 0, o.self)

\* Deadline::wait up to its sleep that does not sleep at all.
Deadline_wait_sleep_none(self, t) ==
    LET o == Deadline_remaining_duration(self, t)
    IN  Outcome(o.panic, 0, o.self)

\* Deadline::wait up to its sleep: the argument of std::thread::sleep.
Deadline_wait_sleep(self, t) == Deadline_remaining_duration(self, t)

\* Deadline::wait after its sleep, advancing delivery_time whatever the kind.
Deadline_wait_wake_always(self) == AddAssignDur(self)

\* Deadline::wait after its sleep: DeadlineRepeat advances delivery_time.
Deadline_wait_wake(self) ==
    IF self.kind = "Once" THEN Outcome(FALSE, 0, self) ELSE AddAssignDur(self)

\* A copy of the interval that shares it with the original, as a clone of an
\* Arc would.
Deadline_copy_shared(self) == [alias |-> TRUE, self |-> self]

\* #[derive(Clone, Copy)] on Deadline and its two kinds: the copy is a value
\* of its own holding the fields of self.
Deadline_copy(self) == [alias |-> FALSE, self |-> self]

(* --------------------------- Timer, Watcher ---------------------------- *)

\* State::new with the cell set from the start.
State_new_set == TRUE

\* State::new: AtomicBool::default()
State_new == FALSE

\* State::toggle with a store of true in place of the flip.
State_toggle_set(cell) == TRUE

\* State::toggle: fetch_xor(true), the cell's new value.
State_toggle(cell) == ~cell

\* State::value with a swap(false) in place of the load: the reader takes
\* the flag down.
State_value_swap(cell) == [val |-> cell, cell |-> FALSE]

\* State::value with a fetch_xor in place of the load.
State_value_xor(cell) == [val |-> cell, cell |-> ~cell]

\* State::value: the value loaded, and the cell as the load leaves it.
State_value(cell) == [val |-> cell, cell |-> cell]

\* Watcher::new with a constant baseline instead of the sampled one.
Watcher_new_default(cell) == [prev_state |-> FALSE, cell |-> cell]

\* Watcher::new: prev_state = state.value()
Watcher_new(cell) ==
    LET v == State_value(cell) IN [prev_state |-> v.val, cell |-> v.cell]

\* Watcher::has_ticked that sets prev_state instead of flipping it.
Watcher_has_ticked_set(self, cell) ==
    LET v == State_value(cell)
    IN  IF v.val # self.prev_state
        THEN [ret |-> TRUE, prev_state |-> TRUE,
              read |-> v.val, cell |-> v.cell]
        ELSE [ret |-> FALSE, prev_state |-> self.prev_state,
              read |-> v.val, cell |-> v.cell]

\* Watcher::has_ticked with the comparison inverted.
Watcher_has_ticked_inverted(self, cell) ==
    LET v == State_value(cell)
    IN  IF v.val = self.prev_state
        THEN [ret |-> TRUE, prev_state |-> ~self.prev_state,
              read |-> v.val, cell |-> v.cell]
        ELSE [ret |-> FALSE, prev_state |-> self.prev_state,
              read |-> v.val, cell |-> v.cell]

\* Watcher::has_ticked that reports the flip without recording it.
Watcher_has_ticked_stale(self, cell) ==
    LET v == State_value(cell)
    IN  [ret |-> v.val # self.prev_state, prev_state |-> self.prev_state,
         read |-> v.val, cell |-> v.cell]

\* Watcher::has_ticked: the result, prev_state after the call, the value
\* loaded and the cell as the call leaves it.
Watcher_has_ticked(self, cell) ==
    LET v == State_value(cell)
    IN  IF v.val # self.prev_state
        THEN [ret |-> TRUE, prev_state |-> ~self.prev_state,
              read |-> v.val, cell |-> v.cell]
        ELSE [ret |-> FALSE, prev_state |-> self.prev_state,
              read |-> v.val, cell |-> v.cell]

\* Watcher::clone copying the source's prev_state (a derived Clone).
Watcher_clone_derived(self, cell) == [prev_state |-> self.prev_state, cell |-> cell]

\* Watcher::clone, its second statement: prev_state = state.value()
Watcher_clone(self, cell) ==
    LET v == State_value(cell) IN [prev_state |-> v.val, cell |-> v.cell]

(* ------------------------------ state ---------------------------------- *)

VARIABLES
    now,      \* the monotonic clock
    t0,       \* Instant::now() read by the constructor
    dl,       \* the interval: a Deadline, or the Timer's deadline field
    dpc,      \* where the thread owning dl is: idle, sleeping, toggling, panicked
    wakeAt,   \* while sleeping: the instant the sleep ends at the earliest
    last,     \* the latest call on dl: operation, instant, delivery_time before, result
    waits,    \* number of wait() calls that returned
    others,   \* number of expired()/remaining_duration() calls that returned
    flag,     \* the Arc<AtomicBool> of the Timer's State
    flips,    \* number of State::toggle() calls, i.e. completed ticks
    ws,       \* the watcher handles, by slot
    act,      \* the has_ticked() call of the latest step, if it was one
    cp        \* the copy made of dl, moved to a thread of its own

vars == <<now, t0, dl, dpc, wakeAt, last, waits, others, flag, flips, ws, act, cp>>

dlVars == <<t0, dl, dpc, wakeAt, last, waits, others, cp>>
timerVars == <<flag, flips, ws>>

Slots == 1 .. MaxWatchers

\* A watcher slot: the handle's own field prev_state, and the record of
\* what it has done: where it comes from (src, 0 for Timer::watcher), the
\* number of flips at its latest read of the flag (seen), its true results
\* (trues), whether it read its baseline before the first flip and has
\* called has_ticked() between every two flips since (steady), and whether
\* neither a flip nor a has_ticked() of its own came since its baseline read
\* (quiet).  For a clone: whether its source had a flip pending at the
\* clone's read of the flag, with neither a flip nor a has_ticked() of the
\* source since (srcDue).  The value the watcher read from the flag at its
\* latest has_ticked() that returned true, or at its creation if none did
\* (observed).  For a clone, kept while it is quiet: whether a flip came
\* between the two statements of clone() ("none" if not) and, if one did,
\* whether the baseline the clone read is "equal" to the source's prev_state
\* or "different" (race; "flipped" until the read).  The flips performed
\* before the watcher read its baseline (born).
Free ==
    [st |-> "free", prev_state |-> FALSE, src |-> 0, seen |-> 0, trues |-> 0,
     steady |-> FALSE, quiet |-> FALSE, srcDue |-> FALSE, observed |-> FALSE,
     race |-> "none", born |-> 0]

Dropped == [Free EXCEPT !.st = "dropped"]

\* What the latest step did, when it was a has_ticked(): the watcher, the
\* result, the value the call read from the flag (read), prev_state before
\* the call (prev), the flips since the watcher's read before it (k), whether
\* the watcher was quiet (first), whether a clone of it had srcDue (due) and
\* the watcher's race.  Any other step leaves NoAct.
Act(op, w, ret, read, prev, k, first, due, race) ==
    [op |-> op, w |-> w, ret |-> ret, read |-> read, prev |-> prev, k |-> k,
     first |-> first, due |-> due, race |-> race]

NoAct == Act("none", 0, FALSE, FALSE, FALSE, 0, FALSE, FALSE, "none")

\* The latest call on the interval: the operation, whether it has returned,
\* the instant of the call (at), delivery_time before it (pre) and its result
\* (ret; for wait the duration handed to sleep).  Carried from call to call:
\* whether some expired() has returned true (due), the result of the latest
\* remaining_duration() (rem, DurationMAX before the first) and what rem was
\* before this call (prev).  For an expired(): the number of expired() calls
\* that returned true in a row at this instant, up to this call (run), and
\* delivery_time before the first of them (start).
NoCall ==
    [op |-> "none", done |-> FALSE, at |-> 0, pre |-> 0, ret |-> 0,
     due |-> FALSE, rem |-> DurationMAX, prev |-> DurationMAX,
     run |-> 0, start |-> 0]

\* The call follows an expired() that returned true at the same instant.
InRun(op) ==
    /\ op = "expired"
    /\ last.op = "expired" /\ last.done /\ last.ret = 1 /\ last.at = now

Call(op, done, pre, ret) ==
    [op |-> op, done |-> done, at |-> now, pre |-> pre, ret |-> ret,
     due |-> last.due \/ (op = "expired" /\ done /\ ret = 1),
     rem |-> IF op = "remaining_duration" /\ done THEN ret ELSE last.rem,
     prev |-> last.rem,
     run |-> IF op = "expired"
             THEN (IF InRun(op) THEN last.run ELSE 0)
                  + (IF done /\ ret = 1 THEN 1 ELSE 0)
             ELSE 0,
     start |-> IF op # "expired" THEN 0 ELSE IF InRun(op) THEN last.start ELSE pre]

\* The copy of the interval: whether it has been made, whether it shares
\* the original's fields (alias), its fields (self), where the thread that
\* owns it is (pc: idle, sleeping, panicked), while it sleeps the end of its
\* sleep (wakeAt), and the calls made on it (calls).
NoCopy ==
    [made |-> FALSE, alias |-> FALSE,
     self |-> [kind |-> "None", dur |-> 0, delivery_time |-> 0],
     pc |-> "idle", wakeAt |-> 0, calls |-> 0]

\* The copy after a call on the original that leaves the original as `self`.
CopyAfter(self) ==
    IF cp.made /\ cp.alias THEN [cp EXCEPT !.self = self] ELSE cp

\* The original after a call on the copy that leaves the copy as `self`.
OriginalAfter(self) ==
    IF cp.made /\ cp.alias THEN self ELSE dl

(* --------------------- the interval used on its own -------------------- *)

\* Deadline::once(dur) / Deadline::repeat(dur) at instant t
NewDeadline(kind, t, dur) ==
    IF kind = "Once" THEN DeadlineOnce_new(t, dur) ELSE DeadlineRepeat_new(t, dur)

\* The clock advances by one unit, up to the instant `bound`.
AdvanceClock(bound) ==
    /\ now < bound
    /\ now' = now + 1
    /\ act' = NoAct
    /\ UNCHANGED <<dlVars, timerVars>>

\* Deadline::expired
Expired ==
    /\ dpc = "idle"
    /\ waits + others < MaxCalls
    /\ LET o == Deadline_expired(dl, now)
       IN  /\ dl' = o.self
           /\ dpc' = IF o.panic THEN "panicked" ELSE "idle"
           /\ last' = Call("expired", ~o.panic, dl.delivery_time, o.ret)
           /\ cp' = CopyAfter(o.self)
           /\ others' = IF o.panic THEN others ELSE others + 1
    /\ act' = NoAct
    /\ UNCHANGED <<now, t0, wakeAt, waits, timerVars>>

\* Deadline::remaining_duration
RemainingDuration ==
    /\ dpc = "idle"
    /\ waits + others < MaxCalls
    /\ LET o == Deadline_remaining_duration(dl, now)
       IN  /\ dl' = o.self
           /\ dpc' = IF o.panic THEN "panicked" ELSE "idle"
           /\ last' = Call("remaining_duration", ~o.panic, dl.delivery_time, o.ret)
           /\ cp' = CopyAfter(o.self)
           /\ others' = IF o.panic THEN others ELSE others + 1
    /\ act' = NoAct
    /\ UNCHANGED <<now, t0, wakeAt, waits, timerVars>>

\* Deadline::wait, from the call to the start of std::thread::sleep
WaitCall ==
    /\ dpc = "idle"
    /\ waits + others < MaxCalls
    /\ LET o == Deadline_wait_sleep(dl, now)
       IN  /\ dl' = o.self
           /\ dpc' = IF o.panic THEN "panicked" ELSE "sleeping"
           /\ wakeAt' = now + o.ret
           /\ last' = Call("wait", FALSE, dl.delivery_time, o.ret)
           /\ cp' = CopyAfter(o.self)
    /\ act' = NoAct
    /\ UNCHANGED <<now, t0, waits, others, timerVars>>

\* Deadline::wait, from the end of the sleep (never early, possibly late)
\* to the return
WaitReturn ==
    /\ dpc = "sleeping"
    /\ now >= wakeAt
    /\ LET o == Deadline_wait_wake(dl)
       IN  /\ dl' = o.self
           /\ dpc' = IF o.panic THEN "panicked" ELSE "idle"
           /\ last' = [last EXCEPT !.done = ~o.panic]
           /\ cp' = CopyAfter(o.self)
           /\ waits' = IF o.panic THEN waits ELSE waits + 1
    /\ act' = NoAct
    /\ UNCHANGED <<now, t0, wakeAt, others, timerVars>>

\* let copy = deadline: the owner of dl, between two calls, copies it.
CopyDeadline ==
    /\ dpc = "idle"
    /\ ~cp.made
    /\ LET o == Deadline_copy(dl)
       IN  cp' = [NoCopy EXCEPT !.made = TRUE, !.alias = o.alias, !.self = o.self]
    /\ act' = NoAct
    /\ UNCHANGED <<now, t0, dl, dpc, wakeAt, last, waits, others, timerVars>>

\* Deadline::expired on the copy
CopyExpired ==
    /\ cp.made /\ cp.pc = "idle"
    /\ cp.calls < MaxCopyCalls
    /\ waits + others + cp.calls < MaxCalls
    /\ LET o == Deadline_expired(cp.self, now)
       IN  /\ cp' = [cp EXCEPT !.self = o.self,
                               !.pc = IF o.panic THEN "panicked" ELSE "idle",
                               !.calls = @ + 1]
           /\ dl' = OriginalAfter(o.self)
    /\ act' = NoAct
    /\ UNCHANGED <<now, t0, dpc, wakeAt, last, waits, others, timerVars>>

\* Deadline::remaining_duration on the copy
CopyRemainingDuration ==
    /\ cp.made /\ cp.pc = "idle"
    /\ cp.calls < MaxCopyCalls
    /\ waits + others + cp.calls < MaxCalls
    /\ LET o == Deadline_remaining_duration(cp.self, now)
       IN  /\ cp' = [cp EXCEPT !.self = o.self,
                               !.pc = IF o.panic THEN "panicked" ELSE "idle",
                               !.calls = @ + 1]
           /\ dl' = OriginalAfter(o.self)
    /\ act' = NoAct
    /\ UNCHANGED <<now, t0, dpc, wakeAt, last, waits, others, timerVars>>

\* Deadline::wait on the copy, from the call to the start of the sleep
CopyWaitCall ==
    /\ cp.made /\ cp.pc = "idle"
    /\ cp.calls < MaxCopyCalls
    /\ waits + others + cp.calls < MaxCalls
    /\ LET o == Deadline_wait_sleep(cp.self, now)
       IN  /\ cp' = [cp EXCEPT !.self = o.self,
                               !.pc = IF o.panic THEN "panicked" ELSE "sleeping",
                               !.wakeAt = now + o.ret,
                               !.calls = @ + 1]
           /\ dl' = OriginalAfter(o.self)
    /\ act' = NoAct
    /\ UNCHANGED <<now, t0, dpc, wakeAt, last, waits, others, timerVars>>

\* Deadline::wait on the copy, from the end of the sleep to the return
CopyWaitReturn ==
    /\ cp.made /\ cp.pc = "sleeping"
    /\ now >= cp.wakeAt
    /\ LET o == Deadline_wait_wake(cp.self)
       IN  /\ cp' = [cp EXCEPT !.self = o.self,
                               !.pc = IF o.panic THEN "panicked" ELSE "idle",
                               !.wakeAt = 0]
           /\ dl' = OriginalAfter(o.self)
    /\ act' = NoAct
    /\ UNCHANGED <<now, t0, dpc, wakeAt, last, waits, others, timerVars>>

InitDeadline ==
    /\ now \in 0 .. MaxStart
    /\ t0 = now
    /\ \E kind \in {"Once", "Repeat"}, dur \in Durations :
          dl = NewDeadline(kind, now, dur)
    /\ dpc = "idle"
    /\ wakeAt = 0
    /\ last = NoCall
    /\ waits = 0
    /\ others = 0
    /\ flag = FALSE
    /\ flips = 0
    /\ ws = [w \in Slots |-> Free]
    /\ act = NoAct
    /\ cp = NoCopy

NextDeadline ==
    \/ AdvanceClock(MaxNow)
    \/ Expired
    \/ RemainingDuration
    \/ WaitCall
    \/ WaitReturn

SpecDeadline == InitDeadline /\ [][NextDeadline]_vars

\* The interval and a copy of it, each used by its own thread.
NextCopy ==
    \/ NextDeadline
    \/ CopyDeadline
    \/ CopyExpired
    \/ CopyRemainingDuration
    \/ CopyWaitCall
    \/ CopyWaitReturn

SpecCopy == InitDeadline /\ [][NextCopy]_vars

(* ------------------------- the Timer and its watchers ------------------ *)

\* Slots are handed out in order.
NextFree(w) == ws[w].st = "free" /\ \A v \in Slots : v < w => ws[v].st # "free"

\* A clone of watcher w is under way: w is borrowed.
Borrowed(w) == \E v \in Slots : ws[v].st = "cloning" /\ ws[v].src = w

\* Timer::watcher: needs &self, so no tick() (&mut self) is under way.
TimerWatcher(w) ==
    /\ dpc = "idle"
    /\ NextFree(w)
    /\ LET o == Watcher_new(flag)
       IN  /\ flag' = o.cell
           /\ ws' = [ws EXCEPT ![w] =
                        [Free EXCEPT !.st = "live", !.prev_state = o.prev_state,
                                     !.seen = flips, !.born = flips,
                                     !.steady = (flips = 0),
                                     !.quiet = TRUE,
                                     !.observed = State_value(flag).val]]
    /\ act' = NoAct
    /\ UNCHANGED <<now, dlVars, flips>>

\* Watcher::clone, first statement: state = self.state.clone()
CloneBegin(s, w) ==
    /\ ws[s].st = "live"
    /\ NextFree(w)
    /\ ws' = [ws EXCEPT ![w] = [Free EXCEPT !.st = "cloning", !.src = s]]
    /\ act' = NoAct
    /\ UNCHANGED <<now, dlVars, flag, flips>>

\* Watcher::clone, second statement: prev_state = state.value()
CloneEnd(w) ==
    /\ ws[w].st = "cloning"
    /\ LET s == ws[w].src
           o == Watcher_clone(ws[s], flag)
       IN  /\ flag' = o.cell
           /\ ws' = [ws EXCEPT ![w] =
                        [@ EXCEPT !.st = "live", !.prev_state = o.prev_state,
                                  !.seen = flips, !.born = flips,
                                  !.steady = (flips = 0),
                                  !.quiet = TRUE,
                                  !.srcDue = (flag # ws[s].prev_state),
                                  !.observed = State_value(flag).val,
                                  !.race = IF @ = "none" THEN "none"
                                           ELSE IF o.prev_state = ws[s].prev_state
                                           THEN "equal" ELSE "different"]]
    /\ act' = NoAct
    /\ UNCHANGED <<now, dlVars, flips>>

\* Watcher::has_ticked: needs &mut self, so no clone of w is under way.
HasTicked(w) ==
    /\ ws[w].st = "live"
    /\ ~Borrowed(w)
    /\ LET o == Watcher_has_ticked(ws[w], flag)
       IN  /\ flag' = o.cell
           /\ ws' = [v \in Slots |->
                        IF v = w
                        THEN [ws[w] EXCEPT !.prev_state = o.prev_state,
                                           !.quiet = FALSE,
                                           !.trues = IF o.ret THEN @ + 1 ELSE @,
                                           !.seen = flips,
                                           !.observed = IF o.ret THEN o.read ELSE @,
                                           !.race = "none"]
                        ELSE IF ws[v].st = "live" /\ ws[v].src = w
                        THEN [ws[v] EXCEPT !.srcDue = FALSE]
                        ELSE ws[v]]
           /\ act' = Act("has_ticked", w, o.ret, o.read, ws[w].prev_state,
                         flips - ws[w].seen, ws[w].quiet,
                         \E v \in Slots : /\ ws[v].st = "live"
                                          /\ ws[v].src = w
                                          /\ ws[v].srcDue,
                         ws[w].race)
    /\ UNCHANGED <<now, dlVars, flips>>

\* drop(watcher): the handle goes, the Arc's count drops by one.
DropWatcher(w) ==
    /\ ws[w].st = "live"
    /\ ~Borrowed(w)
    /\ ws' = [ws EXCEPT ![w] = Dropped]
    /\ act' = NoAct
    /\ UNCHANGED <<now, dlVars, flag, flips>>

\* Timer::tick, self.deadline.wait() up to its sleep
TickCall ==
    /\ dpc = "idle"
    /\ waits < MaxTicks
    /\ LET o == Deadline_wait_sleep(dl, now)
       IN  /\ dl' = o.self
           /\ dpc' = IF o.panic THEN "panicked" ELSE "sleeping"
           /\ wakeAt' = now + o.ret
           /\ cp' = CopyAfter(o.self)
    /\ act' = NoAct
    /\ UNCHANGED <<now, t0, last, waits, others, timerVars>>

\* Timer::tick, self.deadline.wait() from the end of its sleep
TickWake ==
    /\ dpc = "sleeping"
    /\ now >= wakeAt
    /\ LET o == Deadline_wait_wake(dl)
       IN  /\ dl' = o.self
           /\ dpc' = IF o.panic THEN "panicked" ELSE "toggling"
           /\ waits' = IF o.panic THEN waits ELSE waits + 1
           /\ cp' = CopyAfter(o.self)
    /\ act' = NoAct
    /\ UNCHANGED <<now, t0, wakeAt, last, others, timerVars>>

\* Timer::tick, self.state.toggle(), and the return
TickToggle ==
    /\ dpc = "toggling"
    /\ flag' = State_toggle(flag)
    /\ flips' = flips + 1
    /\ ws' = [w \in Slots |->
                IF ws[w].st = "live"
                THEN [ws[w] EXCEPT !.steady = @ /\ ws[w].seen = flips,
                                   !.quiet = FALSE,
                                   !.srcDue = FALSE,
                                   !.race = "none"]
                ELSE IF ws[w].st = "cloning"
                THEN [ws[w] EXCEPT !.race = "flipped"]
                ELSE ws[w]]
    /\ act' = NoAct
    /\ dpc' = "idle"
    /\ UNCHANGED <<now, t0, dl, wakeAt, last, waits, others, cp>>

\* Timer::new(delay), at instant t
Timer_new(t, delay) == [state |-> State_new, deadline |-> DeadlineRepeat_new(t, delay)]

Init ==
    /\ now = 0
    /\ t0 = now
    /\ \E delay \in TimerDelays :
          /\ dl = Timer_new(now, delay).deadline
          /\ flag = Timer_new(now, delay).state
    /\ dpc = "idle"
    /\ wakeAt = 0
    /\ last = NoCall
    /\ waits = 0
    /\ others = 0
    /\ flips = 0
    /\ ws = [w \in Slots |-> Free]
    /\ act = NoAct
    /\ cp = NoCopy

Next ==
    \/ AdvanceClock(MaxTimerNow)
    \/ TickCall
    \/ TickWake
    \/ TickToggle
    \/ \E w \in Slots : TimerWatcher(w)
    \/ \E s, w \in Slots : CloneBegin(s, w)
    \/ \E w \in Slots : CloneEnd(w)
    \/ \E w \in Slots : HasTicked(w)
    \/ \E w \in Slots : DropWatcher(w)

Spec == Init /\ [][Next]_vars

\* The Timer and its watchers with a clock that runs to the end of its range,
\* so that every sleep a tick() starts can end.
NextLive ==
    \/ AdvanceClock(InstantMax)
    \/ TickCall
    \/ TickWake
    \/ TickToggle
    \/ \E w \in Slots : TimerWatcher(w)
    \/ \E s, w \in Slots : CloneBegin(s, w)
    \/ \E w \in Slots : CloneEnd(w)
    \/ \E w \in Slots : HasTicked(w)
    \/ \E w \in Slots : DropWatcher(w)

\* The clock keeps advancing; a thread whose sleep has ended is woken, and
\* a thread that can run does.
Fairness ==
    /\ WF_vars(AdvanceClock(InstantMax))
    /\ WF_vars(TickWake)
    /\ WF_vars(TickToggle)

SpecLive == Init /\ [][NextLive]_vars /\ Fairness

(* ------------------------------ claims --------------------------------- *)

Live(w) == ws[w].st = "live"

Polled == act.op = "has_ticked"

\* C1: the Timer having flipped the flag k times since a watcher's previous
\* read of it (its creation or its previous has_ticked()), the watcher's
\* has_ticked() returns true when k is odd and false when k is even.
C1_ParityLaw == Polled => (act.ret <=> act.k % 2 = 1)

\* Two ticks went by unpolled and the poll answers false.
C1_Witness == Polled /\ act.k = 2 /\ ~act.ret

\* C2: a watcher that read its baseline before the first flip and has polled
\* between every two flips has, once it polled after the latest flip, as many
\* true results as there were flips, and never more than one to come.
C2_OncePerTick ==
    \A w \in Slots :
        Live(w) /\ ws[w].steady =>
            /\ ws[w].seen = flips => ws[w].trues = flips
            /\ ws[w].seen # flips => ws[w].trues = flips - 1

\* A watcher and its clone, both taken before the first tick, have each
\* reported both ticks.
C2_Witness ==
    /\ flips = 2
    /\ \E v, w \in Slots :
          /\ Live(v) /\ Live(w) /\ ws[w].src = v
          /\ ws[v].steady /\ ws[w].steady
          /\ ws[v].trues = 2 /\ ws[w].trues = 2

\* The contract of has_ticked(): the result is whether the value read
\* differs from prev_state; a true result leaves prev_state at the value
\* read, a false one leaves it as it was; the flag keeps the value read.
HasTickedContract ==
    Polled =>
        /\ act.ret <=> act.read # act.prev
        /\ ws[act.w].prev_state = IF act.ret THEN act.read ELSE act.prev
        /\ flag = act.read

\* C3 as stated: the contract, and the first has_ticked() after a tick
\* (k >= 1 flips since the watcher's previous read) returns true, every
\* further one before the next tick (k = 0) false.
C3_Original ==
    /\ HasTickedContract
    /\ Polled => (IF act.k >= 1 THEN act.ret ELSE ~act.ret)

\* C3 amended: the contract, and the first has_ticked() after a single tick
\* since the watcher's previous read (k = 1) returns true, every further one
\* before the next tick (k = 0) false.
C3_HasTicked ==
    /\ HasTickedContract
    /\ Polled /\ act.k = 1 => act.ret
    /\ Polled /\ act.k = 0 => ~act.ret

\* A poll right after a detected tick: false, prev_state untouched.
C3_Witness ==
    /\ Polled /\ act.k = 0 /\ ~act.ret
    /\ ws[act.w].trues >= 1
    /\ act.prev = TRUE

\* C4: the first has_ticked() of a watcher, no flip having come since the
\* watcher read its baseline, returns false.
C4_FreshIsFalse == Polled /\ act.first => ~act.ret

\* A watcher created after a tick that another watcher has not detected
\* polls for the first time.
C4_Witness ==
    /\ Polled /\ act.first /\ ~act.ret
    /\ flips >= 1
    /\ \E v \in Slots : v # act.w /\ Live(v) /\ ws[v].prev_state # flag

\* C5: a clone untouched since its read of the flag is what Timer::watcher()
\* returns for the flag as it is; and when the source had a flip pending at
\* that read, the source's next has_ticked() returns true and the clone's
\* returns false, no tick coming in between.
C5_CloneResamples ==
    /\ \A w \in Slots :
          Live(w) /\ ws[w].src # 0 /\ ws[w].quiet =>
              ws[w].prev_state = Watcher_new(flag).prev_state
    /\ Polled /\ act.due => act.ret
    /\ Polled /\ act.first /\ ws[act.w].src # 0 => ~act.ret

\* The source, cloned with a flip pending, polls and gets true while its
\* clone, whose baseline is the flipped flag, has not polled yet.
C5_Witness ==
    /\ Polled /\ act.due /\ act.ret
    /\ \E w \in Slots :
          /\ Live(w) /\ ws[w].src = act.w /\ ws[w].quiet
          /\ ws[w].prev_state = TRUE

\* C6: a step that changes the flag is the toggle of Timer::tick().
C6_SingleWriter ==
    [][flag' # flag => dpc = "toggling" /\ flips' = flips + 1]_vars

\* A tick, a clone, a drop and a has_ticked() have all happened.
C6_Witness ==
    /\ flips >= 1
    /\ Polled
    /\ \E v, w \in Slots : ws[v].st = "dropped" /\ Live(w) /\ ws[w].src # 0

\* C8: the n-th wait() of the Timer's repeating deadline, and so the n-th
\* tick(), has not returned before t0 + (n-1) * period.
C8_NotBefore ==
    /\ waits >= 1 => now >= t0 + (waits - 1) * dl.dur
    /\ flips >= 1 => now >= t0 + (flips - 1) * dl.dur

\* Two ticks of a Timer of period 1 have returned.
C8_Witness == flips = 2 /\ waits = 2 /\ dl.dur = 1

\* C9: a watcher holding k true results is at or after t0 + k * period.
C9_NeverEarly == \A w \in Slots : now >= t0 + ws[w].trues * dl.dur

\* A watcher has detected the second tick of a Timer of period 1.
C9_Witness == \E w \in Slots : Live(w) /\ ws[w].trues = 2 /\ dl.dur = 1

\* The delivery time the constructor gave the interval.
Delivery0 == checked_delivery_time(t0, dl.dur)

Repeating == dl.kind = "Repeat"

\* C7: a wait() on a repeating interval that has returned left delivery_time
\* one period after what it found; and after waits alone delivery_time is
\* the constructor's plus one period per wait.
C7_OnePeriodPerWait ==
    Repeating =>
        /\ last.op = "wait" /\ last.done =>
               dl.delivery_time = last.pre + dl.dur
        /\ others = 0 /\ dpc = "idle" =>
               dl.delivery_time = Delivery0 + waits * dl.dur

\* C10: expired() on a repeating interval called with delivery_time <= now
\* returns true and leaves delivery_time one period later; called with
\* delivery_time > now it returns false and leaves delivery_time as it was.
C10_Expired ==
    Repeating /\ last.op = "expired" =>
        IF last.pre <= last.at
        THEN last.done /\ last.ret = 1 /\ dl.delivery_time = last.pre + dl.dur
        ELSE last.done /\ last.ret = 0 /\ dl.delivery_time = last.pre

\* What holds of every expired() on a repeating interval that returns: the
\* result is whether delivery_time <= now, true moves delivery_time on by one
\* period, false leaves it, and after a true result for an interval overdue
\* by less than a period a poll at the same instant is false.
ExpiredWhenReturning ==
    Repeating /\ last.op = "expired" /\ last.done =>
        /\ last.ret = 1 <=> last.pre <= last.at
        /\ dl.delivery_time = IF last.ret = 1 THEN last.pre + dl.dur ELSE last.pre
        /\ last.ret = 1 /\ last.at - last.pre < dl.dur =>
               Deadline_expired(dl, last.at).ret = 0

(* ----------------------- the single-shot interval --------------------- *)

Once == dl.kind = "Once"

\* C11 as stated: expired() on a single-shot interval of any duration,
\* called at the instant of construction, returns false.
C11_Original ==
    Once /\ last.op = "expired" /\ last.at = t0 => last.done /\ last.ret = 0

\* C11 amended: expired() on a single-shot interval called at the instant of
\* construction returns false when the duration is positive, and true when
\* the duration is zero.
C11_FreshNotDue ==
    Once /\ last.op = "expired" /\ last.at = t0 =>
        /\ last.done
        /\ last.ret = 0 <=> dl.dur > 0

\* The first call on a single-shot interval of Duration::MAX, made at the
\* instant of construction, is an expired() that answers false.
C11_Witness ==
    /\ Once /\ dl.dur = DurationMAX
    /\ last.op = "expired" /\ last.at = t0 /\ last.ret = 0
    /\ others = 1 /\ waits = 0

\* C12: expired() on a single-shot interval whose duration did not overflow
\* returns true at every instant from t0 + dur on; and on any single-shot
\* interval an expired() that returns false has not been preceded by one
\* that returned true.
C12_DueFromDelivery ==
    Once /\ last.op = "expired" =>
        /\ last.done
        /\ ~Overflows(t0, dl.dur) /\ last.at >= t0 + dl.dur => last.ret = 1
        /\ last.ret = 0 => ~last.due

\* A single-shot interval of the largest ordinary duration, polled true
\* after its delivery time, after a wait and another poll.
C12_Witness ==
    /\ Once /\ dl.dur = MaxDur
    /\ last.op = "expired" /\ last.at > t0 + dl.dur /\ last.ret = 1
    /\ others >= 2 /\ waits >= 1

\* C13: remaining_duration() on a single-shot interval returns
\* max(0, delivery_time - now): never more than the call before it, zero at
\* and after delivery_time, never negative, and it always returns.
C13_Remaining ==
    Once /\ last.op = "remaining_duration" =>
        /\ last.done
        /\ last.ret = IF dl.delivery_time > last.at
                      THEN dl.delivery_time - last.at ELSE 0
        /\ last.ret <= last.prev
        /\ last.ret >= 0
        /\ last.at >= dl.delivery_time => last.ret = 0

\* remaining_duration(), positive at an earlier call, is zero at a call made
\* after delivery_time.
C13_Witness ==
    /\ Once /\ dl.dur > 0
    /\ last.op = "remaining_duration" /\ last.at > dl.delivery_time
    /\ last.ret = 0 /\ last.prev \in 1 .. MaxDur

\* C14 as stated: no wait() on a single-shot interval has returned before
\* t0 + dur, and a wait() called at or after t0 + dur sleeps for zero.
C14_Original ==
    Once =>
        /\ waits >= 1 => now >= t0 + dl.dur
        /\ last.op = "wait" /\ last.at >= t0 + dl.dur =>
               last.ret = 0 /\ wakeAt = last.at

\* C14 amended: no wait() on a single-shot interval has returned before its
\* delivery time, which is t0 + dur, or t0 + TEN_YEARS when t0 + dur
\* overflows; and a wait() called at or after the delivery time sleeps for
\* zero.
C14_WaitOnce ==
    Once =>
        /\ waits >= 1 => now >= Delivery0
        /\ last.op = "wait" /\ last.at >= Delivery0 =>
               last.ret = 0 /\ wakeAt = last.at

\* A second wait() on an expired single-shot interval, polled in between,
\* has returned after a sleep of zero.
C14_Witness ==
    /\ Once /\ dl.dur = MaxDur
    /\ waits = 2 /\ others >= 1
    /\ last.op = "wait" /\ last.done /\ last.ret = 0

(* ----------------------------- overflow -------------------------------- *)

\* No call has been made on the interval yet.
Fresh == last.op = "none" /\ dpc = "idle"

\* C15: the delivery time the constructor gives an interval (which a
\* single-shot interval keeps) is t0 + dur when the clock can represent it
\* and t0 + TEN_YEARS otherwise; it lies in the clock's range, not before
\* t0, and the sum t0 + TEN_YEARS the helper evaluates is in range too.
C15_Capping ==
    Once \/ Fresh =>
        /\ dl.delivery_time = IF t0 + dl.dur <= InstantMax
                              THEN t0 + dl.dur ELSE t0 + TEN_YEARS
        /\ dl.delivery_time \in t0 .. InstantMax
        /\ ~Overflows(t0, TEN_YEARS)

\* A repeating interval whose duration overflows the clock by one unit has
\* been given the capped delivery time.
C15_Witness ==
    /\ Fresh /\ Repeating
    /\ t0 + dl.dur = InstantMax + 1
    /\ dl.delivery_time = t0 + TEN_YEARS

\* C16: no call on an interval panics, and delivery_time stays in the
\* clock's range.
C16_Total == dpc # "panicked" /\ dl.delivery_time <= InstantMax

(* ------------------------ the Timer's telegraph ------------------------ *)

\* C17: a watcher's prev_state is the value it read from the flag at its
\* latest has_ticked() that returned true, or at its creation by
\* Timer::watcher() or clone() if none has.
C17_LastObserved ==
    \A w \in Slots : Live(w) => ws[w].prev_state = ws[w].observed

\* A clone made after the first tick has detected the second and holds the
\* value it read then, the flag being down again.
C17_Witness ==
    /\ Polled /\ act.ret /\ act.read = FALSE
    /\ ws[act.w].src # 0 /\ ws[act.w].trues = 1
    /\ ws[act.w].observed = FALSE /\ flips = 2

\* C18: the flag is up exactly when the number of completed tick() calls is
\* odd; a tick() flips the flag once, after its wait() has returned: the
\* waits that returned are the flips, plus the one of the tick() that is
\* about to flip.
C18_FlagParity ==
    /\ flag <=> flips % 2 = 1
    /\ waits = flips + (IF dpc = "toggling" THEN 1 ELSE 0)

\* The second tick() has waited and is about to flip the flag back.
C18_Witness == dpc = "toggling" /\ waits = 2 /\ flips = 1 /\ flag

\* The first has_ticked() of a clone, no flip having come since its read of
\* the flag, a flip having come between the two statements of its clone().
RacedPoll == Polled /\ act.first /\ act.race \in {"equal", "different"}

\* C19 as stated: the raced clone's baseline is equal to or different from
\* the source's; with a different baseline it misses the overlapping tick
\* (its has_ticked() is false), with an equal one it reports a tick from
\* before its creation (its has_ticked() is true).
C19_Original == RacedPoll => (act.ret <=> act.race = "equal")

\* C19 amended: the raced clone's baseline is equal to or different from the
\* source's, and either way its has_ticked() is false until the next flip:
\* it misses the overlapping tick and reports no tick from before its read
\* of the flag.
C19_CloneRace ==
    /\ RacedPoll => ~act.ret
    /\ Polled /\ act.ret => act.k >= 1

\* The tick overlapped the clone(): the source has reported it, the clone,
\* whose baseline differs from the source's, answers false.
C19_Witness ==
    /\ RacedPoll /\ act.race = "different" /\ ~act.ret
    /\ ws[ws[act.w].src].trues = 1

\* The source had the first tick pending and the second overlapped the
\* clone(): the baselines are equal and neither handle reports anything.
C19_EqualBaselines ==
    /\ RacedPoll /\ act.race = "equal" /\ ~act.ret
    /\ flips = 2 /\ ws[ws[act.w].src].trues = 0
    /\ ws[ws[act.w].src].prev_state = flag

\* What a step on watcher w leaves alone: every other live watcher stays
\* live, keeps its prev_state and what its next has_ticked() returns.
OthersUntouched(w) ==
    \A v \in Slots \ {w} :
        Live(v) =>
            /\ ws'[v].st = "live"
            /\ ws'[v].prev_state = ws[v].prev_state
            /\ Watcher_has_ticked(ws'[v], flag').ret
                   = Watcher_has_ticked(ws[v], flag).ret

\* The Timer's side is left alone: the flag, the deadline and the position
\* of tick().
TimerUntouched ==
    /\ flag' = flag /\ flips' = flips
    /\ dl' = dl /\ dpc' = dpc /\ wakeAt' = wakeAt /\ waits' = waits

\* A step of watcher w other than has_ticked(): its drop, or either
\* statement of a clone() of it into slot c.  Each action is preceded by
\* what it implies of the slot it changes.
HandleStep(w) ==
    \/ ws'[w].st = "dropped" /\ DropWatcher(w)
    \/ \E c \in Slots :
          ws[c].st = "free" /\ ws'[c].st = "cloning" /\ CloneBegin(w, c)
    \/ \E c \in Slots :
          ws[c].st = "cloning" /\ ws[c].src = w /\ ws'[c].st = "live" /\ CloneEnd(c)

\* C20: has_ticked() on a watcher, either statement of a clone() of it, and
\* its drop leave the other watchers and the Timer alone.  (A step that
\* leaves a has_ticked() in act is the has_ticked() of act.w; a step that
\* leaves ws as it is is none of the others.)
C20_NoInterference ==
    [][IF act'.op = "has_ticked"
       THEN HasTicked(act'.w) /\ OthersUntouched(act'.w) /\ TimerUntouched
       ELSE ws' # ws =>
               \A w \in Slots :
                   HandleStep(w) => OthersUntouched(w) /\ TimerUntouched]_vars

\* A clone has polled (false) while its source still has a tick pending.
C20_Witness ==
    /\ Polled /\ ~act.ret /\ ws[act.w].src # 0
    /\ Live(ws[act.w].src)
    /\ ws[ws[act.w].src].prev_state # flag

(* --------------------- what the calls do to the interval --------------- *)

\* C21: a single-shot interval keeps the delivery time and the duration its
\* constructor gave it, and every call finds that delivery time.
C21_OnceFrozen ==
    Once =>
        /\ dl.delivery_time = Delivery0
        /\ last.op # "none" => last.pre = Delivery0

\* A single-shot interval of positive duration has been polled, asked for
\* its remaining duration and waited on twice, the last call after expiry.
C21_Witness ==
    /\ Once /\ dl.dur \in 1 .. MaxDur
    /\ waits = 2 /\ others = 2
    /\ last.due /\ last.rem < DurationMAX
    /\ last.at > dl.delivery_time

\* C22: remaining_duration() on a repeating interval returns
\* max(0, delivery_time - now); a zero result leaves delivery_time one period
\* later, any other result leaves it as it was; and after a zero result for
\* an interval overdue by less than a period the next call, made later or
\* the interval having been overdue, returns less than the period.
C22_RemainingRepeat ==
    Repeating /\ last.op = "remaining_duration" =>
        /\ last.done
        /\ last.ret = IF last.pre > last.at THEN last.pre - last.at ELSE 0
        /\ dl.delivery_time = IF last.ret = 0 THEN last.pre + dl.dur ELSE last.pre
        /\ /\ last.ret = 0
           /\ last.at - last.pre < dl.dur
           /\ now > last.at \/ last.at > last.pre
           => Deadline_remaining_duration(dl, now).ret < dl.dur

\* What holds of every remaining_duration() on a repeating interval that
\* returns: all of C22 but the return itself; and called at delivery_time
\* exactly, a second call at the same instant returns the whole period.
RemainingWhenReturning ==
    Repeating /\ last.op = "remaining_duration" /\ last.done =>
        /\ last.ret = IF last.pre > last.at THEN last.pre - last.at ELSE 0
        /\ dl.delivery_time = IF last.ret = 0 THEN last.pre + dl.dur ELSE last.pre
        /\ /\ last.ret = 0
           /\ last.at - last.pre < dl.dur
           /\ now > last.at \/ last.at > last.pre
           => Deadline_remaining_duration(dl, now).ret < dl.dur
        /\ last.ret = 0 /\ last.at = last.pre /\ now = last.at =>
               Deadline_remaining_duration(dl, now).ret = dl.dur

\* C26: the delivery time of a repeating interval whose period did not
\* overflow at construction is t0 plus a positive number of periods, and no
\* call has left it earlier than it found it.
C26_NoDrift ==
    Repeating /\ ~Overflows(t0, dl.dur) =>
        /\ \E j \in 1 .. InstantMax : dl.delivery_time = t0 + j * dl.dur
        /\ dl.delivery_time >= Delivery0
        /\ last.op # "none" => dl.delivery_time >= last.pre

\* A repeating interval of the largest ordinary period, polled and waited
\* on late, stands three periods after t0.
C26_Witness ==
    /\ Repeating /\ dl.dur = MaxDur
    /\ dl.delivery_time = t0 + 3 * dl.dur
    /\ waits >= 1 /\ others >= 1

\* The whole periods by which the interval was overdue when the run of
\* expired() calls ending with the latest call began.
Overdue == (last.at - last.start) \div dl.dur

\* C23: expired() calls made in a row at one instant on a repeating interval
\* of positive period, overdue by m whole periods at the first of them, all
\* return; no more than m + 1 in a row return true, and the one that returns
\* false comes after exactly m + 1 that returned true.
C23_CatchUp ==
    /\ Repeating /\ dl.dur > 0
    /\ last.op = "expired" /\ last.start <= last.at
    => /\ last.done
       /\ last.ret = 1 => last.run <= Overdue + 1
       /\ last.ret = 0 => last.run = Overdue + 1

\* What holds of the expired() calls of C23 that return: the counts of C23.
CatchUpWhenReturning ==
    /\ Repeating /\ dl.dur > 0
    /\ last.op = "expired" /\ last.start <= last.at /\ last.done
    => /\ last.ret = 1 => last.run <= Overdue + 1
       /\ last.ret = 0 => last.run = Overdue + 1

\* An interval of period 1, two whole periods overdue, has answered true
\* three times in a row and then false.
CatchUpReached ==
    /\ Repeating /\ dl.dur = 1
    /\ last.op = "expired" /\ last.done /\ last.ret = 0
    /\ Overdue = 2 /\ last.run = 3

(* ------------------------- copies of an interval ---------------------- *)

\* A step is a call on the original interval (which shows in the record of
\* its calls or in where its thread is).
OriginalStep ==
    /\ <<last, waits, others, dpc>>' # <<last, waits, others, dpc>>
    /\ Expired \/ RemainingDuration \/ WaitCall \/ WaitReturn

\* A step is a call on the copy (which shows in the copy's calls or in
\* where its thread is).
CopyStep ==
    /\ cp.made /\ <<cp.calls, cp.pc>>' # <<cp.calls, cp.pc>>
    /\ CopyExpired \/ CopyRemainingDuration \/ CopyWaitCall \/ CopyWaitReturn

\* C27: the copy starts with the fields of the original; from then on a
\* call on the original leaves the delivery time and the period of the copy
\* as they were, and a call on the copy those of the original.
C27_CopiesApart ==
    [][/\ ~cp.made /\ CopyDeadline => cp'.self = dl /\ dl' = dl
       /\ cp.made /\ OriginalStep => cp'.self = cp.self
       /\ cp.made /\ CopyStep => dl' = dl]_vars

\* Both copies of a repeating interval have been waited on, and they are
\* at different delivery times.
C27_Witness ==
    /\ Repeating /\ cp.made /\ dl.dur \in 1 .. MaxDur
    /\ cp.calls >= 1 /\ cp.pc = "idle" /\ waits >= 1
    /\ last.op = "wait" /\ last.done
    /\ cp.self.delivery_time # dl.delivery_time

(* ------------------------------ progress ------------------------------- *)

\* has_ticked() and both statements of clone() can run wherever the Timer's
\* thread is, and watcher() whenever no tick() holds the Timer.
NeverBlocked ==
    /\ \A w \in Slots : Live(w) /\ ~Borrowed(w) => ENABLED HasTicked(w)
    /\ \A s, w \in Slots : Live(s) /\ NextFree(w) => ENABLED CloneBegin(s, w)
    /\ \A w \in Slots : ws[w].st = "cloning" => ENABLED CloneEnd(w)
    /\ \A w \in Slots : dpc = "idle" /\ NextFree(w) => ENABLED TimerWatcher(w)

\* C24: the clock advancing, a tick() that has been called returns, having
\* flipped the flag once; and has_ticked(), clone() and watcher() are never
\* blocked.
C24_TickReturns ==
    /\ \A n \in 0 .. MaxTicks :
          (dpc = "sleeping" /\ flips = n) ~> (dpc = "idle" /\ flips = n + 1)
    /\ []NeverBlocked

\* What holds of every tick(): it returns, having flipped the flag once, or
\* it panics; and the watchers' calls are never blocked.
TickReturnsOrPanics ==
    /\ \A n \in 0 .. MaxTicks :
          (dpc = "sleeping" /\ flips = n) ~>
              (dpc = "panicked" \/ (dpc = "idle" /\ flips = n + 1))
    /\ []NeverBlocked

(* --------------------------- no phantom ticks --------------------------- *)

\* C25: a watcher has obtained at most as many true results from
\* has_ticked() as flips were performed since it read its baseline, and a
\* true result that is not the watcher's first read since its baseline
\* follows at least one flip performed since its previous read.
C25_NoPhantomTicks ==
    /\ \A w \in Slots : Live(w) => ws[w].trues <= flips - ws[w].born
    /\ Polled /\ act.ret => act.k >= 1

\* A watcher has polled true for each of the two flips performed since it
\* read its baseline, the second of them just now.
C25_Witness ==
    /\ Polled /\ act.ret /\ ~act.first /\ act.k = 1
    /\ ws[act.w].trues = 2
    /\ flips - ws[act.w].born = 2

====
